---- MODULE Spec2Model ----
(***************************************************************************)
(* Model of the keyhole simulation runner (sim/runner.go): configuration   *)
(* setters, Start (prompt, cleanup, index creation, chunk splitting and    *)
(* migration, worker spawning), the worker goroutines, CollectAllStatus    *)
(* and terminate.                                                          *)
(***************************************************************************)
EXTENDS Integers, Naturals, Sequences, FiniteSets, TLC

(* ------------------------------ bounds --------------------------------- *)
MaxConns == 2
MaxDuration == 1
MaxUris == 2
MaxIndexDocs == 1
MaxRecords == 1
MaxSignals == 1
MaxSplitShards == 9

(* ------------------------- program constants --------------------------- *)
KeyholeDB == "_KEYHOLE_88800"
ExamplesCollection == "examples"
Sharded == "SHARDED"
Replica == "REPLICA"
NumShardKeys == 26
QuitCap == 2
ShardKeys == <<"A", "B", "C", "D", "E", "F", "G", "H", "I", "J", "K", "L", "M",
               "N", "O", "P", "Q", "R", "S", "T", "U", "V", "W", "X", "Y", "Z">>

VARIABLES
  \* Runner fields
  auto, peek, simOnly, drop, duration, conns, dbName, collectionName,
  clusterType, uriList, metrics,
  \* NewRunner: the connection string's database, what the call returned and
  \* which of its calls failed
  ctor,
  \* the argument x of the goroutine started by SetPeekingMode
  peekArg,
  \* the process
  mainPc, exited, peekSet,
  \* locals of Start shared with the worker closures
  simTime, err, tdocIndexes, spawned, text,
  \* locals of createIndexes / splitChunks
  docI, shards, splitI, chunks, chunkI, fillI,
  \* effects on the database
  dropLog, indexCalls, splitLog, moveLog, planErr,
  \* worker goroutines
  wpc, ownErr, simArg, popCount,
  \* terminate invocations (one per calling goroutine)
  tpc, tIdx, tLog, termErrors, snap, outputs,
  \* CollectAllStatus: collectors, signal channel, timers
  collectors, signals, quit, timer, peekSleep

cfgVars == <<auto, peek, simOnly, drop, duration, conns, dbName, collectionName,
             clusterType, uriList, ctor, peekArg>>
startVars == <<simTime, tdocIndexes, spawned, text>>
planVars == <<docI, shards, splitI, chunks, chunkI, fillI>>
dbVars == <<dropLog, indexCalls, splitLog, moveLog, planErr>>
workerVars == <<wpc, ownErr, simArg, popCount>>
termVars == <<tpc, tIdx, tLog, termErrors, snap, outputs>>
collVars == <<collectors, signals, quit, timer>>

vars == <<cfgVars, metrics, mainPc, exited, peekSet, startVars, err, planVars,
          dbVars, workerVars, termVars, collVars, peekSleep>>

Workers == 0 .. (MaxConns - 1)
Threads == {"main", "peek"}
Cats == {"c1", "c2"}
Results == {"ok", "err"}
DbNames == {KeyholeDB, "admin", "mydb"}
CollNames == {ExamplesCollection, "other"}

Running == exited = "running"

(* --------------------------- construction ------------------------------ *)
\* What NewRunner leaves behind when it returns a runner and a nil error for
\* a connection string naming database db on a cluster of type ct: shards are
\* enumerated only on a sharded cluster.
Returned(db, ct) ==
  [database |-> db, err |-> "nil", ret |-> "runner", retErr |-> "nil",
   failed |-> "none", listed |-> (ct = Sharded)]

\* NewRunner: dbName from the connection string ("" becomes KeyholeDB),
\* collectionName the examples collection, metrics empty, uriList one URI per
\* shard on a sharded cluster and the single connection string otherwise.
Init ==
  /\ auto = FALSE /\ peek = FALSE /\ simOnly = FALSE /\ drop = FALSE
  /\ duration = 0 /\ conns = 0
  /\ dbName \in DbNames
  /\ collectionName = ExamplesCollection
  /\ clusterType \in {Sharded, Replica}
  /\ uriList \in 1 .. MaxUris
  /\ (clusterType # Sharded => uriList = 1)
  /\ metrics = [c \in Cats |-> 0]
  /\ ctor = Returned(IF dbName = KeyholeDB THEN "" ELSE dbName, clusterType)
  /\ peekArg = 0
  /\ mainPc = "config" /\ exited = "running" /\ peekSet = FALSE
  /\ simTime = 0 /\ err = "nil" /\ tdocIndexes = 0 /\ spawned = 0 /\ text = ""
  /\ docI = 0 /\ shards = 0 /\ splitI = 0 /\ chunks = <<>> /\ chunkI = 0 /\ fillI = 0
  /\ dropLog = <<>> /\ indexCalls = 0 /\ splitLog = <<>> /\ moveLog = <<>>
  /\ planErr = "none"
  /\ wpc = [w \in Workers |-> "none"]
  /\ ownErr = [w \in Workers |-> FALSE]
  /\ simArg = [w \in Workers |-> 0]
  /\ popCount = [w \in Workers |-> 0]
  /\ tpc = [t \in Threads |-> "idle"]
  /\ tIdx = [t \in Threads |-> 0]
  /\ tLog = [t \in Threads |-> <<>>]
  /\ termErrors = {}
  /\ snap = [t \in Threads |-> [c \in Cats |-> 0]]
  /\ outputs = <<>>
  /\ collectors = 0 /\ signals = 0 /\ quit = 0
  /\ timer = -1 /\ peekSleep = -1

\* The database names a connection string can carry.
ConnDatabases == {"", "admin", "config", "local", "mydb", KeyholeDB}

\* The process before NewRunner is called with a connection string naming
\* database ctor.database: every field of the runner has its zero value.
CtorInit ==
  /\ auto = FALSE /\ peek = FALSE /\ simOnly = FALSE /\ drop = FALSE
  /\ duration = 0 /\ conns = 0
  /\ dbName = "" /\ collectionName = "" /\ clusterType = "" /\ uriList = 0
  /\ metrics = [c \in Cats |-> 0]
  /\ \E db \in ConnDatabases :
       ctor = [database |-> db, err |-> "nil", ret |-> "none", retErr |-> "none",
               failed |-> "none", listed |-> FALSE]
  /\ peekArg = 0
  /\ mainPc = "nr_new" /\ exited = "running" /\ peekSet = FALSE
  /\ simTime = 0 /\ err = "nil" /\ tdocIndexes = 0 /\ spawned = 0 /\ text = ""
  /\ docI = 0 /\ shards = 0 /\ splitI = 0 /\ chunks = <<>> /\ chunkI = 0 /\ fillI = 0
  /\ dropLog = <<>> /\ indexCalls = 0 /\ splitLog = <<>> /\ moveLog = <<>>
  /\ planErr = "none"
  /\ wpc = [w \in Workers |-> "none"]
  /\ ownErr = [w \in Workers |-> FALSE]
  /\ simArg = [w \in Workers |-> 0]
  /\ popCount = [w \in Workers |-> 0]
  /\ tpc = [t \in Threads |-> "idle"]
  /\ tIdx = [t \in Threads |-> 0]
  /\ tLog = [t \in Threads |-> <<>>]
  /\ termErrors = {}
  /\ snap = [t \in Threads |-> [c \in Cats |-> 0]]
  /\ outputs = <<>>
  /\ collectors = 0 /\ signals = 0 /\ quit = 0
  /\ timer = -1 /\ peekSleep = -1

\* What every step of NewRunner leaves alone.
NewRunner_Frame ==
  UNCHANGED <<auto, peek, simOnly, drop, duration, conns, metrics, peekArg,
              exited, peekSet, startVars, err, planVars, dbVars, workerVars,
              termVars, collVars, peekSleep>>

\* The struct literal and runner.dbName: the connection string's database,
\* the keyhole database when it names none.
NewRunner_Fields ==
  /\ Running
  /\ mainPc = "nr_new"
  /\ collectionName' = ExamplesCollection
  /\ dbName' = IF ctor.database = "" THEN KeyholeDB ELSE ctor.database
  /\ mainPc' = "nr_client"
  /\ UNCHANGED <<clusterType, uriList, ctor>>
  /\ NewRunner_Frame

\* mdb.NewMongoClient: an error returns the runner and the error.
NewRunner_Client ==
  /\ Running
  /\ mainPc = "nr_client"
  /\ \E r \in Results :
       IF r = "err"
         THEN /\ ctor' = [ctor EXCEPT !.err = "connect", !.failed = "connect",
                                      !.ret = "runner", !.retErr = "connect"]
              /\ mainPc' = "failed"
         ELSE /\ mainPc' = "nr_cluster"
              /\ UNCHANGED ctor
  /\ UNCHANGED <<dbName, collectionName, clusterType, uriList>>
  /\ NewRunner_Frame

\* The cluster type reported by the statistics summary: an empty one returns
\* nil and an error; otherwise uriList is the connection string alone and, on
\* a cluster that is not sharded, the runner is returned with the nil err.
NewRunner_ClusterType ==
  /\ Running
  /\ mainPc = "nr_cluster"
  /\ \E ct \in {"", Sharded, Replica} :
       /\ clusterType' = ct
       /\ IF ct = ""
            THEN /\ ctor' = [ctor EXCEPT !.failed = "clusterType", !.ret = "nil",
                                         !.retErr = "invalid cluster type"]
                 /\ mainPc' = "failed"
                 /\ UNCHANGED uriList
            ELSE /\ uriList' = 1
                 /\ IF ct = Sharded
                      THEN mainPc' = "nr_shards" /\ UNCHANGED ctor
                      ELSE /\ ctor' = [ctor EXCEPT !.ret = "runner", !.retErr = ctor.err]
                           /\ mainPc' = "config"
  /\ UNCHANGED <<dbName, collectionName>>
  /\ NewRunner_Frame

\* ShardErrReturned giving back the err declared at the top of NewRunner.
ShardErrReturned_Outer(outer, inner) == outer

\* The error returned from inside "if shards, err := mdb.GetShards(...)":
\* the err of the if statement, which shadows the one declared at the top of
\* NewRunner.
ShardErrReturned(outer, inner) == inner

\* mdb.GetShards: an error returns the runner and the error.
NewRunner_GetShards ==
  /\ Running
  /\ mainPc = "nr_shards"
  /\ \E r \in Results :
       IF r = "err"
         THEN /\ ctor' = [ctor EXCEPT !.listed = TRUE, !.failed = "GetShards",
                                      !.ret = "runner",
                                      !.retErr = ShardErrReturned(ctor.err, "GetShards")]
              /\ mainPc' = "failed"
         ELSE /\ ctor' = [ctor EXCEPT !.listed = TRUE]
              /\ mainPc' = "nr_uris"
  /\ UNCHANGED <<dbName, collectionName, clusterType, uriList>>
  /\ NewRunner_Frame

\* mdb.GetAllShardURIs assigns runner.uriList: an error returns the runner
\* and the error; otherwise the list has one URI per shard and the runner is
\* returned with the nil err.
NewRunner_GetAllShardURIs ==
  /\ Running
  /\ mainPc = "nr_uris"
  /\ \E r \in Results :
       IF r = "err"
         THEN /\ uriList' = 0
              /\ ctor' = [ctor EXCEPT !.failed = "GetAllShardURIs", !.ret = "runner",
                                      !.retErr = ShardErrReturned(ctor.err, "GetAllShardURIs")]
              /\ mainPc' = "failed"
         ELSE /\ \E n \in 1 .. MaxUris : uriList' = n
              /\ ctor' = [ctor EXCEPT !.ret = "runner", !.retErr = ctor.err]
              /\ mainPc' = "config"
  /\ UNCHANGED <<dbName, collectionName, clusterType>>
  /\ NewRunner_Frame

(* ------------------------------ setters -------------------------------- *)
Configuring == Running /\ mainPc = "config"

\* SetCollection: the empty name selects the examples collection.
SetCollection(collName) ==
  /\ Configuring
  /\ collectionName' = IF collName # "" THEN collName ELSE ExamplesCollection
  /\ UNCHANGED <<auto, peek, simOnly, drop, duration, conns, dbName, clusterType,
                 uriList, metrics, ctor, peekArg, mainPc, exited, peekSet, startVars, err,
                 planVars, dbVars, workerVars, termVars, collVars, peekSleep>>

SetAutoMode(b) ==
  /\ Configuring
  /\ auto' = b
  /\ UNCHANGED <<peek, simOnly, drop, duration, conns, dbName, collectionName,
                 clusterType, uriList, metrics, ctor, peekArg, mainPc, exited, peekSet, startVars,
                 err, planVars, dbVars, workerVars, termVars, collVars, peekSleep>>

\* SetPeekingMode: stores the mode and, when it is on, starts a goroutine that
\* sleeps rn.duration minutes (the value the field holds at this call) and then
\* calls terminate.  The driver calls it at most once.
SetPeekingMode(mode) ==
  /\ Configuring
  /\ ~peekSet
  /\ peekSet' = TRUE
  /\ peek' = mode
  /\ IF mode
       THEN /\ peekArg' = duration
            /\ peekSleep' = duration
            /\ tpc' = [tpc EXCEPT !["peek"] = "sleeping"]
       ELSE UNCHANGED <<peekArg, peekSleep, tpc>>
  /\ UNCHANGED <<auto, simOnly, drop, duration, conns, dbName, collectionName,
                 clusterType, uriList, metrics, ctor, mainPc, exited, startVars, err,
                 planVars, dbVars, workerVars, tIdx, tLog, termErrors, snap, outputs,
                 collVars>>

SetSimulationDuration(d) ==
  /\ Configuring
  /\ duration' = d
  /\ UNCHANGED <<auto, peek, simOnly, drop, conns, dbName, collectionName,
                 clusterType, uriList, metrics, ctor, peekArg, mainPc, exited, peekSet, startVars,
                 err, planVars, dbVars, workerVars, termVars, collVars, peekSleep>>

SetDropFirstMode(mode) ==
  /\ Configuring
  /\ drop' = mode
  /\ UNCHANGED <<auto, peek, simOnly, duration, conns, dbName, collectionName,
                 clusterType, uriList, metrics, ctor, peekArg, mainPc, exited, peekSet, startVars,
                 err, planVars, dbVars, workerVars, termVars, collVars, peekSleep>>

SetNumberConnections(num) ==
  /\ Configuring
  /\ conns' = num
  /\ UNCHANGED <<auto, peek, simOnly, drop, duration, dbName, collectionName,
                 clusterType, uriList, metrics, ctor, peekArg, mainPc, exited, peekSet, startVars,
                 err, planVars, dbVars, workerVars, termVars, collVars, peekSleep>>

SetSimOnlyMode(mode) ==
  /\ Configuring
  /\ simOnly' = mode
  /\ UNCHANGED <<auto, peek, drop, duration, conns, dbName, collectionName,
                 clusterType, uriList, metrics, ctor, peekArg, mainPc, exited, peekSet, startVars,
                 err, planVars, dbVars, workerVars, termVars, collVars, peekSleep>>

(* ------------------------------- Cleanup ------------------------------- *)
\* One effect of Cleanup: a Drop call with its result, or a sleep.
DropColl(db, coll, res) ==
  [kind |-> "collection", db |-> db, coll |-> coll, res |-> res, secs |-> 0]

DropDb(db, res) ==
  [kind |-> "database", db |-> db, coll |-> "", res |-> res, secs |-> 0]

Sleep(secs) ==
  [kind |-> "sleep", db |-> "", coll |-> "", res |-> "ok", secs |-> secs]

\* Cleanup that returns when the drop of the collection fails.
Cleanup_StopOnError(db, rColl, rDb) ==
  IF peek THEN <<>>
  ELSE (IF ~simOnly /\ db = KeyholeDB
          THEN (IF collectionName = ExamplesCollection
                  THEN << DropColl(KeyholeDB, ExamplesCollection, rColl) >>
                  ELSE <<>>)
               \o (IF collectionName = ExamplesCollection /\ rColl = "err"
                     THEN <<>> ELSE << DropDb(db, rDb) >>)
          ELSE <<>>)
       \o << Sleep(1) >>

\* Cleanup without the early return in peek mode.
Cleanup_NoPeekCheck(db, rColl, rDb) ==
  (IF ~simOnly /\ db = KeyholeDB
     THEN (IF collectionName = ExamplesCollection
             THEN << DropColl(KeyholeDB, ExamplesCollection, rColl) >>
             ELSE <<>>)
          \o << DropDb(db, rDb) >>
     ELSE <<>>)
  \o << Sleep(1) >>

\* Cleanup without the test that the target is the keyhole database.
Cleanup_AnyDatabase(db, rColl, rDb) ==
  IF peek THEN <<>>
  ELSE (IF ~simOnly
          THEN (IF collectionName = ExamplesCollection
                  THEN << DropColl(KeyholeDB, ExamplesCollection, rColl) >>
                  ELSE <<>>)
               \o << DropDb(db, rDb) >>
          ELSE <<>>)
       \o << Sleep(1) >>

\* What Cleanup does, in order, with rn.dbName = db and the given results of
\* the two Drop calls: nothing in peek mode; otherwise, when not simulate-only
\* and the target is the keyhole database, the drop of the examples collection
\* (only when it is the configured collection) and then of the database, a
\* failed drop being logged and the function going on; then a sleep of one
\* second.
Cleanup(db, rColl, rDb) ==
  IF peek THEN <<>>
  ELSE (IF ~simOnly /\ db = KeyholeDB
          THEN (IF collectionName = ExamplesCollection
                  THEN << DropColl(KeyholeDB, ExamplesCollection, rColl) >>
                  ELSE <<>>)
               \o << DropDb(db, rDb) >>
          ELSE <<>>)
       \o << Sleep(1) >>

(* -------------------------------- Start -------------------------------- *)
\* Start, up to the prompt: in peek mode it returns nil at once (the driver
\* then calls CollectAllStatus).
Start_Enter ==
  /\ Configuring
  /\ mainPc' = IF peek THEN "collect" ELSE IF ~auto THEN "prompt" ELSE "prepare"
  /\ UNCHANGED <<cfgVars, metrics, exited, peekSet, startVars, err, planVars,
                 dbVars, workerVars, termVars, collVars, peekSleep>>

\* The lines the operator can type at the prompt (with the newline removed).
Answers == {"y", "Y", "n", "yes"}

\* Start_Prompt taking only the lower-case y for a confirmation.
Start_Prompt_LowercaseOnly ==
  /\ Running
  /\ mainPc = "prompt"
  /\ \E line \in Answers :
       /\ text' = line
       /\ IF line # "y"
            THEN exited' = "exit0" /\ UNCHANGED mainPc
            ELSE mainPc' = "prepare" /\ UNCHANGED exited
  /\ UNCHANGED <<cfgVars, metrics, peekSet, simTime, tdocIndexes, spawned, err,
                 planVars, dbVars, workerVars, termVars, collVars, peekSleep>>

\* The confirmation prompt: anything but y or Y is os.Exit(0).
Start_Prompt ==
  /\ Running
  /\ mainPc = "prompt"
  /\ \E line \in Answers :
       /\ text' = line
       /\ IF line # "y" /\ line # "Y"
            THEN exited' = "exit0" /\ UNCHANGED mainPc
            ELSE mainPc' = "prepare" /\ UNCHANGED exited
  /\ UNCHANGED <<cfgVars, metrics, peekSet, simTime, tdocIndexes, spawned, err,
                 planVars, dbVars, workerVars, termVars, collVars, peekSleep>>

\* LoadTestDB without the test for the local database.
LoadTestDB_NoLocal(db) ==
  IF db = "" \/ db = "admin" \/ db = "config" THEN KeyholeDB ELSE db

\* The database a load test runs against: system databases are replaced.
LoadTestDB(db) ==
  IF db = "" \/ db = "admin" \/ db = "config" \/ db = "local" THEN KeyholeDB ELSE db

\* SimTime without the decrement for the population minute.
SimTime_NoPopulationMinute(d, so) == d

\* simTime := rn.duration; if rn.simOnly == false { simTime-- }
SimTime(d, so) == IF so = FALSE THEN d - 1 ELSE d

\* AfterPrepare calling createIndexes whatever the mode.
AfterPrepare_AlwaysIndexes(so) == "ci_search"

\* Where Start goes once simTime is computed: createIndexes unless
\* simulate-only, then the spawn loop.
AfterPrepare(so) == IF so = FALSE THEN "ci_search" ELSE "spawn"

\* Start from the database-name check to the computation of simTime: the
\* optional Cleanup, the template (tdoc.Indexes has n entries), simTime.
Start_Prepare ==
  /\ Running
  /\ mainPc = "prepare"
  /\ dbName' = LoadTestDB(dbName)
  /\ IF drop
       THEN \E rColl \in Results, rDb \in Results :
              dropLog' = Cleanup(LoadTestDB(dbName), rColl, rDb)
       ELSE UNCHANGED dropLog
  /\ \E n \in 0 .. MaxIndexDocs : tdocIndexes' = n
  /\ simTime' = SimTime(duration, simOnly)
  /\ mainPc' = AfterPrepare(simOnly)
  /\ UNCHANGED <<auto, peek, simOnly, drop, duration, conns, collectionName,
                 clusterType, uriList, ctor, peekArg, metrics, exited, peekSet,
                 spawned, text, err,
                 planVars, indexCalls, splitLog, moveLog, planErr, workerVars,
                 termVars, collVars, peekSleep>>

\* Start_Spawn with the spawn loop placed before the call of createIndexes.
Start_Spawn_BeforeIndexes ==
  /\ Running
  /\ mainPc \in {"spawn", "ci_search"}
  /\ IF spawned < conns
       THEN /\ wpc' = [wpc EXCEPT ![spawned] = "start"]
            /\ spawned' = spawned + 1
            /\ UNCHANGED mainPc
       ELSE /\ mainPc = "spawn"
            /\ mainPc' = "collect"
            /\ UNCHANGED <<wpc, spawned>>
  /\ UNCHANGED <<cfgVars, metrics, exited, peekSet, simTime, tdocIndexes, text,
                 err, planVars, dbVars, ownErr, simArg, popCount, termVars,
                 collVars, peekSleep>>

\* The loop that starts one goroutine per connection, then return nil.
Start_Spawn ==
  /\ Running
  /\ mainPc = "spawn"
  /\ IF spawned < conns
       THEN /\ wpc' = [wpc EXCEPT ![spawned] = "start"]
            /\ spawned' = spawned + 1
            /\ UNCHANGED mainPc
       ELSE /\ mainPc' = "collect"
            /\ UNCHANGED <<wpc, spawned>>
  /\ UNCHANGED <<cfgVars, metrics, exited, peekSet, simTime, tdocIndexes, text,
                 err, planVars, dbVars, ownErr, simArg, popCount, termVars,
                 collVars, peekSleep>>

(* ---------------------------- createIndexes ---------------------------- *)
\* Every error returns to Start, which ignores the returned error and goes on
\* to spawn the workers.
createIndexes_Search ==
  /\ Running
  /\ mainPc = "ci_search"
  /\ indexCalls' = indexCalls + 1
  /\ \E r \in Results :
       mainPc' = IF r = "err" THEN "spawn"
                 ELSE IF tdocIndexes = 0 THEN "ci_email" ELSE "ci_docs"
  /\ docI' = 0
  /\ UNCHANGED <<cfgVars, metrics, exited, peekSet, startVars, err, shards,
                 splitI, chunks, chunkI, fillI, dropLog, splitLog, moveLog,
                 planErr, workerVars, termVars, collVars, peekSleep>>

createIndexes_Email ==
  /\ Running
  /\ mainPc = "ci_email"
  /\ indexCalls' = indexCalls + 1
  /\ \E r \in Results :
       mainPc' = IF r = "err" THEN "spawn"
                 ELSE IF clusterType = Sharded THEN "sc_primary" ELSE "ci_docs"
  /\ UNCHANGED <<cfgVars, metrics, exited, peekSet, startVars, err, planVars,
                 dropLog, splitLog, moveLog, planErr, workerVars, termVars,
                 collVars, peekSleep>>

\* The loop over the template's index documents, then the return.
createIndexes_Docs ==
  /\ Running
  /\ mainPc = "ci_docs"
  /\ IF docI < tdocIndexes
       THEN /\ indexCalls' = indexCalls + 1
            /\ \E r \in Results :
                 IF r = "err"
                   THEN mainPc' = "spawn" /\ docI' = 0
                   ELSE docI' = docI + 1 /\ UNCHANGED mainPc
       ELSE /\ mainPc' = "spawn"
            /\ docI' = 0
            /\ UNCHANGED indexCalls
  /\ UNCHANGED <<cfgVars, metrics, exited, peekSet, startVars, err, shards,
                 splitI, chunks, chunkI, fillI, dropLog, splitLog, moveLog,
                 planErr, workerVars, termVars, collVars, peekSleep>>

(* ----------------------------- splitChunks ----------------------------- *)
\* divider := 1 + len(shardKeys)/(len(shards)+1)
Divider(m) == 1 + (NumShardKeys \div (m + 1))

\* The index into shardKeys of the split issued for shard i (0-based).
SplitIndex(i, m) == (i + 1) * Divider(m)

\* A command of the sharding preamble: an error returns it from splitChunks.
Preamble(pc, name, nextPc) ==
  /\ Running
  /\ mainPc = pc
  /\ \E r \in Results :
       IF r = "err"
         THEN planErr' = name /\ mainPc' = "sc_ret"
         ELSE mainPc' = nextPc /\ UNCHANGED planErr
  /\ UNCHANGED <<cfgVars, metrics, exited, peekSet, startVars, err, planVars,
                 dropLog, indexCalls, splitLog, moveLog, workerVars, termVars,
                 collVars, peekSleep>>

\* FindOne on config.databases for the primary shard.
splitChunks_FindPrimary == Preamble("sc_primary", "findPrimary", "sc_enable")

splitChunks_EnableSharding == Preamble("sc_enable", "enableSharding", "sc_shardcoll")

splitChunks_ShardCollection == Preamble("sc_shardcoll", "shardCollection", "sc_shards")

\* Find on config.shards and the loop that keeps every decodable shard other
\* than the primary: m of the cluster's shards are kept.
splitChunks_FindShards ==
  /\ Running
  /\ mainPc = "sc_shards"
  /\ \E r \in Results :
       IF r = "err"
         THEN planErr' = "findShards" /\ mainPc' = "sc_ret" /\ UNCHANGED shards
         ELSE /\ \E m \in 0 .. (uriList - 1) : shards' = m
              /\ mainPc' = "sc_split"
              /\ UNCHANGED planErr
  /\ splitI' = 0
  /\ UNCHANGED <<cfgVars, metrics, exited, peekSet, startVars, err, docI,
                 chunks, chunkI, fillI, dropLog, indexCalls, splitLog, moveLog,
                 workerVars, termVars, collVars, peekSleep>>

\* One iteration of the split loop: shardKeys[(i+1)*divider] panics when the
\* index is past the end of shardKeys; a failed split command returns err.
splitChunks_Split ==
  /\ Running
  /\ mainPc = "sc_split"
  /\ splitI < shards
  /\ IF SplitIndex(splitI, shards) >= NumShardKeys
       THEN /\ exited' = "panic"
            /\ UNCHANGED <<mainPc, planErr, splitI, splitLog>>
       ELSE /\ splitLog' = Append(splitLog, SplitIndex(splitI, shards))
            /\ UNCHANGED exited
            /\ \E r \in Results :
                 IF r = "err"
                   THEN planErr' = "split" /\ mainPc' = "sc_ret" /\ UNCHANGED splitI
                   ELSE splitI' = splitI + 1 /\ UNCHANGED <<mainPc, planErr>>
  /\ UNCHANGED <<cfgVars, metrics, peekSet, startVars, err, docI, shards, chunks,
                 chunkI, fillI, dropLog, indexCalls, moveLog, workerVars,
                 termVars, collVars, peekSleep>>

\* After the split loop: Find on config.chunks, sorted by _id descending.  The
\* freshly split collection has one chunk more than it has splits; each chunk
\* is on the primary (0) or on one of the kept shards (1..m).
splitChunks_FindChunks ==
  /\ Running
  /\ mainPc = "sc_split"
  /\ splitI >= shards
  /\ \E r \in Results :
       IF r = "err"
         THEN /\ planErr' = "findChunks" /\ mainPc' = "sc_ret"
              /\ UNCHANGED <<chunks, chunkI>>
         ELSE /\ \E placement \in [1 .. (shards + 1) -> 0 .. shards] : chunks' = placement
              /\ chunkI' = 1
              /\ mainPc' = "sc_walk"
              /\ UNCHANGED planErr
  /\ fillI' = 0
  /\ UNCHANGED <<cfgVars, metrics, exited, peekSet, startVars, err, docI, shards,
                 splitI, dropLog, indexCalls, splitLog, moveLog, workerVars,
                 termVars, collVars, peekSleep>>

\* One iteration of the walk over the chunks.  shards[i] panics when i has
\* reached len(shards).  A chunk already on shards[i] advances i and
\* continues; otherwise the chunk is moved there (log.Fatal on failure), i
\* advances and the walk breaks when i == len(shards).  The end of the cursor
\* ends the walk.
splitChunks_Walk ==
  /\ Running
  /\ mainPc = "sc_walk"
  /\ IF chunkI > Len(chunks)
       THEN /\ mainPc' = "sc_ret"
            /\ UNCHANGED <<exited, moveLog, planErr, chunkI, fillI>>
       ELSE IF fillI >= shards
         THEN /\ exited' = "panic"
              /\ UNCHANGED <<mainPc, chunkI, fillI, moveLog, planErr>>
         ELSE IF chunks[chunkI] = fillI + 1
           THEN /\ fillI' = fillI + 1
                /\ chunkI' = chunkI + 1
                /\ UNCHANGED <<mainPc, exited, moveLog, planErr>>
           ELSE /\ moveLog' = Append(moveLog, fillI + 1)
                /\ \E r \in Results :
                     IF r = "err"
                       THEN /\ exited' = "fatal"
                            /\ planErr' = "move"
                            /\ UNCHANGED <<mainPc, chunkI, fillI>>
                       ELSE /\ UNCHANGED <<exited, planErr>>
                            /\ fillI' = fillI + 1
                            /\ IF fillI + 1 = shards
                                 THEN mainPc' = "sc_ret" /\ UNCHANGED chunkI
                                 ELSE chunkI' = chunkI + 1 /\ UNCHANGED mainPc
  /\ UNCHANGED <<cfgVars, metrics, peekSet, startVars, err, docI, shards, splitI,
                 chunks, dropLog, indexCalls, splitLog, workerVars, termVars,
                 collVars, peekSleep>>

\* splitChunks returns to createIndexes, which prints a non-nil error and goes
\* on; the locals of the call are gone.  planErr keeps the returned error
\* ("nil" for a pass that ran to its end).
splitChunks_Return ==
  /\ Running
  /\ mainPc = "sc_ret"
  /\ mainPc' = "ci_docs"
  /\ shards' = 0 /\ splitI' = 0 /\ chunks' = <<>> /\ chunkI' = 0 /\ fillI' = 0
  /\ splitLog' = <<>> /\ moveLog' = <<>>
  /\ planErr' = IF planErr = "none" THEN "nil" ELSE planErr
  /\ UNCHANGED <<cfgVars, metrics, exited, peekSet, startVars, err, docI,
                 dropLog, indexCalls, workerVars, termVars, collVars,
                 peekSleep>>

(* ------------------------------- workers ------------------------------- *)
\* The worker closure.  err is the variable declared in Start that every
\* closure captures: each goroutine assigns its call's result to it and then
\* tests it.  ownErr[w] records that a call made by w itself returned an error.

\* What a worker does after testing err following its population step: return
\* when it sees an error, else sleep 10ms and call Simulate.
AfterPopulate(e) == IF e # "nil" THEN "aborted" ELSE "simulating"

\* if rn.simOnly == false && rn.duration > 0 { err = rn.PopulateData() ...
\* and, when the condition is false, the call of Simulate.
worker_Populate(w) ==
  /\ Running
  /\ wpc[w] = "start"
  /\ IF simOnly = FALSE /\ duration > 0
       THEN /\ \E r \in Results :
                 /\ err' = (IF r = "err" THEN "error" ELSE "nil")
                 /\ ownErr' = [ownErr EXCEPT ![w] = (r = "err")]
            /\ popCount' = [popCount EXCEPT ![w] = @ + 1]
            /\ wpc' = [wpc EXCEPT ![w] = "chkpop"]
            /\ UNCHANGED simArg
       ELSE /\ wpc' = [wpc EXCEPT ![w] = "simulating"]
            /\ simArg' = [simArg EXCEPT ![w] = simTime]
            /\ UNCHANGED <<err, ownErr, popCount>>
  /\ UNCHANGED <<cfgVars, metrics, mainPc, exited, peekSet, startVars, planVars,
                 dbVars, termVars, collVars, peekSleep>>

\* ... ; err != nil { log; return }; time.Sleep(10ms) }  and the call
\* rn.Simulate(simTime, tdoc.Transactions, thread).
worker_CheckPopulate(w) ==
  /\ Running
  /\ wpc[w] = "chkpop"
  /\ wpc' = [wpc EXCEPT ![w] = AfterPopulate(err)]
  /\ simArg' = [simArg EXCEPT ![w] = IF AfterPopulate(err) = "simulating" THEN simTime ELSE @]
  /\ UNCHANGED <<cfgVars, metrics, mainPc, exited, peekSet, startVars, err,
                 planVars, dbVars, ownErr, popCount, termVars, collVars,
                 peekSleep>>

TotalRecords == metrics["c1"] + metrics["c2"]

\* Inside Simulate: one observation is recorded under the exclusive lock
\* (lock, append to the category's sequence, unlock).
record(w, c) ==
  /\ Running
  /\ wpc[w] = "simulating"
  /\ TotalRecords < MaxRecords
  /\ metrics' = [metrics EXCEPT ![c] = @ + 1]
  /\ UNCHANGED <<cfgVars, mainPc, exited, peekSet, startVars, err, planVars,
                 dbVars, workerVars, termVars, collVars, peekSleep>>

\* Simulate returns and its result is assigned to the shared err.
worker_SimulateReturn(w) ==
  /\ Running
  /\ wpc[w] = "simulating"
  /\ \E r \in Results :
       /\ err' = (IF r = "err" THEN "error" ELSE "nil")
       /\ ownErr' = [ownErr EXCEPT ![w] = @ \/ (r = "err")]
  /\ wpc' = [wpc EXCEPT ![w] = "chksim"]
  /\ UNCHANGED <<cfgVars, metrics, mainPc, exited, peekSet, startVars, planVars,
                 dbVars, simArg, popCount, termVars, collVars, peekSleep>>

\* if err != nil { log; return } and the end of the closure.
worker_CheckSimulate(w) ==
  /\ Running
  /\ wpc[w] = "chksim"
  /\ wpc' = [wpc EXCEPT ![w] = "done"]
  /\ UNCHANGED <<cfgVars, metrics, mainPc, exited, peekSet, startVars, err,
                 planVars, dbVars, ownErr, simArg, popCount, termVars, collVars,
                 peekSleep>>

(* ------------------------------ terminate ------------------------------ *)
\* terminate has no guard: every caller that reaches it runs the whole body.
\* The call is modelled by the caller (tpc[t] becomes "cleanup"); the steps
\* below are the body.  tLog[t] lists the steps invocation t has completed.

\* rn.Cleanup()
terminate_Cleanup(t) ==
  /\ Running
  /\ tpc[t] = "cleanup"
  /\ \E rColl \in Results, rDb \in Results :
       dropLog' = Cleanup(dbName, rColl, rDb)
  /\ tLog' = [tLog EXCEPT ![t] = Append(@, "cleanup")]
  /\ tIdx' = [tIdx EXCEPT ![t] = 0]
  /\ tpc' = [tpc EXCEPT ![t] = "status"]
  /\ UNCHANGED <<cfgVars, metrics, mainPc, exited, peekSet, startVars, err,
                 planVars, indexCalls, splitLog, moveLog, planErr, workerVars,
                 termErrors, snap, outputs, collVars, peekSleep>>

\* AfterStatusError with a break in place of the continue.
AfterStatusError_Break(i) == uriList

\* What one iteration of the loop over rn.uriList does after an error of
\* NewMongoClient or printServerStatus: log and continue with the next URI.
AfterStatusError(i) == i + 1

\* One iteration of the loop over rn.uriList: connect, printServerStatus.
terminate_Status(t) ==
  /\ Running
  /\ tpc[t] = "status"
  /\ tIdx[t] < uriList
  /\ \E outcome \in {"connect", "status", "ok"} :
       /\ termErrors' = IF outcome = "ok" THEN termErrors ELSE termErrors \cup {outcome}
       /\ tIdx' = [tIdx EXCEPT ![t] = IF outcome = "ok" THEN @ + 1 ELSE AfterStatusError(@)]
  /\ tLog' = [tLog EXCEPT ![t] = Append(@, "status")]
  /\ UNCHANGED <<cfgVars, metrics, mainPc, exited, peekSet, startVars, err,
                 planVars, dbVars, workerVars, tpc, snap, outputs, collVars,
                 peekSleep>>

\* terminate_MarshalFirst not waiting for the end of the loop over rn.uriList.
terminate_MarshalFirst_Early(t) ==
  /\ Running
  /\ tpc[t] = "status"
  /\ snap' = [snap EXCEPT ![t] = [@ EXCEPT !["c1"] = metrics["c1"]]]
  /\ tpc' = [tpc EXCEPT ![t] = "marshal"]
  /\ UNCHANGED <<cfgVars, metrics, mainPc, exited, peekSet, startVars, err,
                 planVars, dbVars, workerVars, tIdx, tLog, termErrors, outputs,
                 collVars, peekSleep>>

\* json.Marshal(rn.metrics) walks the map without taking rn.mutex: the first
\* category is read here, the second in terminate_MarshalRest.
terminate_MarshalFirst(t) ==
  /\ Running
  /\ tpc[t] = "status"
  /\ tIdx[t] >= uriList
  /\ snap' = [snap EXCEPT ![t] = [@ EXCEPT !["c1"] = metrics["c1"]]]
  /\ tpc' = [tpc EXCEPT ![t] = "marshal"]
  /\ UNCHANGED <<cfgVars, metrics, mainPc, exited, peekSet, startVars, err,
                 planVars, dbVars, workerVars, tIdx, tLog, termErrors, outputs,
                 collVars, peekSleep>>

\* The rest of json.Marshal; a marshal error is logged and buf stays nil.
terminate_MarshalRest(t) ==
  /\ Running
  /\ tpc[t] = "marshal"
  /\ snap' = [snap EXCEPT ![t] = [@ EXCEPT !["c2"] = metrics["c2"]]]
  /\ \E r \in Results :
       termErrors' = IF r = "ok" THEN termErrors ELSE termErrors \cup {"marshal"}
  /\ tLog' = [tLog EXCEPT ![t] = Append(@, "marshal")]
  /\ tpc' = [tpc EXCEPT ![t] = "output"]
  /\ UNCHANGED <<cfgVars, metrics, mainPc, exited, peekSet, startVars, err,
                 planVars, dbVars, workerVars, tIdx, outputs, collVars,
                 peekSleep>>

\* gox.OutputGzipped(buf, filename): the file is written and buf is not used
\* again.
terminate_Output(t) ==
  /\ Running
  /\ tpc[t] = "output"
  /\ outputs' = Append(outputs, t)
  /\ snap' = [snap EXCEPT ![t] = [c \in Cats |-> 0]]
  /\ tLog' = [tLog EXCEPT ![t] = Append(@, "output")]
  /\ tpc' = [tpc EXCEPT ![t] = "exit"]
  /\ UNCHANGED <<cfgVars, metrics, mainPc, exited, peekSet, startVars, err,
                 planVars, dbVars, workerVars, tIdx, termErrors, collVars,
                 peekSleep>>

\* os.Exit(0)
terminate_Exit(t) ==
  /\ Running
  /\ tpc[t] = "exit"
  /\ exited' = "exit0"
  /\ tLog' = [tLog EXCEPT ![t] = Append(@, "exit")]
  /\ tpc' = [tpc EXCEPT ![t] = "exited"]
  /\ UNCHANGED <<cfgVars, metrics, mainPc, peekSet, startVars, err, planVars,
                 dbVars, workerVars, tIdx, termErrors, snap, outputs, collVars,
                 peekSleep>>

(* ------------------------- peek-mode goroutine ------------------------- *)
\* time.Sleep(x minutes) has elapsed: the goroutine calls rn.terminate().
PeekWake ==
  /\ Running
  /\ tpc["peek"] = "sleeping"
  /\ peekSleep <= 0
  /\ tpc' = [tpc EXCEPT !["peek"] = "cleanup"]
  /\ UNCHANGED <<cfgVars, metrics, mainPc, exited, peekSet, startVars, err,
                 planVars, dbVars, workerVars, tIdx, tLog, termErrors, snap,
                 outputs, collVars, peekSleep>>

\* One minute of wall-clock time passes for every pending sleep and timer.
Tick ==
  /\ Running
  /\ \/ tpc["peek"] = "sleeping" /\ peekSleep > 0
     \/ timer > 0
  /\ peekSleep' = IF tpc["peek"] = "sleeping" /\ peekSleep > 0
                    THEN peekSleep - 1 ELSE peekSleep
  /\ timer' = IF timer > 0 THEN timer - 1 ELSE timer
  /\ UNCHANGED <<cfgVars, metrics, mainPc, exited, peekSet, startVars, err,
                 planVars, dbVars, workerVars, termVars, collectors, signals,
                 quit>>

(* --------------------------- CollectAllStatus -------------------------- *)
\* signal.Notify has been called.
Notified == mainPc \in {"select", "recv", "terminate"}

\* The loop over rn.uriList (a failed connect is logged and skipped, each
\* connected URI gets its collector goroutines), signal.Notify and NewTimer.
CollectAllStatus_Setup ==
  /\ Running
  /\ mainPc = "collect"
  /\ \E k \in 0 .. uriList : collectors' = k
  /\ timer' = duration
  /\ mainPc' = "select"
  /\ UNCHANGED <<cfgVars, metrics, exited, peekSet, startVars, err, planVars,
                 dbVars, workerVars, termVars, signals, quit, peekSleep>>

\* An interrupt or SIGTERM is delivered into the buffered quit channel (and
\* dropped when the buffer is full).
Signal ==
  /\ Running
  /\ Notified
  /\ signals < MaxSignals
  /\ signals' = signals + 1
  /\ quit' = IF quit < QuitCap THEN quit + 1 ELSE quit
  /\ UNCHANGED <<cfgVars, metrics, mainPc, exited, peekSet, startVars, err,
                 planVars, dbVars, workerVars, termVars, collectors, timer,
                 peekSleep>>

\* What the default case of the select does: it blocks in <-rn.channel.
SelectDefault == "recv"

\* select: a ready quit or timer case calls terminate (either when both are
\* ready); with neither ready the default case is taken.
CollectAllStatus_Select ==
  /\ Running
  /\ mainPc = "select"
  /\ \/ /\ quit > 0
        /\ quit' = quit - 1
        /\ mainPc' = "terminate"
        /\ tpc' = [tpc EXCEPT !["main"] = "cleanup"]
        /\ UNCHANGED timer
     \/ /\ timer = 0
        /\ timer' = -1
        /\ mainPc' = "terminate"
        /\ tpc' = [tpc EXCEPT !["main"] = "cleanup"]
        /\ UNCHANGED quit
     \/ /\ quit = 0 /\ timer # 0
        /\ mainPc' = SelectDefault
        /\ UNCHANGED <<tpc, quit, timer>>
  /\ UNCHANGED <<cfgVars, metrics, exited, peekSet, startVars, err, planVars,
                 dbVars, workerVars, tIdx, tLog, termErrors, snap, outputs,
                 collectors, signals, peekSleep>>

\* default: log.Print(<-rn.channel) completes when a collector goroutine sends
\* on the unbuffered channel; then the 50ms sleep and the next iteration.
CollectAllStatus_Receive ==
  /\ Running
  /\ mainPc = "recv"
  /\ collectors > 0
  /\ mainPc' = "select"
  /\ UNCHANGED <<cfgVars, metrics, exited, peekSet, startVars, err, planVars,
                 dbVars, workerVars, termVars, collVars, peekSleep>>

(* --------------------------- specifications ---------------------------- *)
\* NewRunner on the main goroutine.
NewRunnerNext ==
  \/ NewRunner_Fields
  \/ NewRunner_Client
  \/ NewRunner_ClusterType
  \/ NewRunner_GetShards
  \/ NewRunner_GetAllShardURIs

\* The configuration setters.
ConfigNext ==
  \/ \E c \in {"", "other"} : SetCollection(c)
  \/ \E b \in BOOLEAN : SetAutoMode(b)
  \/ \E b \in BOOLEAN : SetPeekingMode(b)
  \/ \E d \in 0 .. MaxDuration : SetSimulationDuration(d)
  \/ \E b \in BOOLEAN : SetDropFirstMode(b)
  \/ \E n \in 0 .. MaxConns : SetNumberConnections(n)
  \/ \E b \in BOOLEAN : SetSimOnlyMode(b)

\* Start on the main goroutine.
StartNext ==
  \/ Start_Enter
  \/ Start_Prompt
  \/ Start_Prepare
  \/ createIndexes_Search
  \/ createIndexes_Email
  \/ createIndexes_Docs
  \/ splitChunks_FindPrimary
  \/ splitChunks_EnableSharding
  \/ splitChunks_ShardCollection
  \/ splitChunks_FindShards
  \/ splitChunks_Split
  \/ splitChunks_FindChunks
  \/ splitChunks_Walk
  \/ splitChunks_Return
  \/ Start_Spawn

\* The worker goroutines, without the observations they record.
WorkerNext ==
  \/ \E w \in Workers : worker_Populate(w)
  \/ \E w \in Workers : worker_CheckPopulate(w)
  \/ \E w \in Workers : worker_SimulateReturn(w)
  \/ \E w \in Workers : worker_CheckSimulate(w)

\* A load run: the driver sets the duration, the number of connections and
\* the simulate-only mode, then calls Start, whose workers run.
LoadNext ==
  \/ \E d \in 0 .. MaxDuration : SetSimulationDuration(d)
  \/ \E n \in 0 .. MaxConns : SetNumberConnections(n)
  \/ \E b \in BOOLEAN : SetSimOnlyMode(b)
  \/ StartNext
  \/ WorkerNext

\* Start under every setting of auto-confirm, drop-first and peek mode, with
\* connections to start workers for.
ConfirmNext ==
  \/ \E b \in BOOLEAN : SetAutoMode(b)
  \/ \E b \in BOOLEAN : SetPeekingMode(b)
  \/ \E b \in BOOLEAN : SetDropFirstMode(b)
  \/ \E n \in 0 .. MaxConns : SetNumberConnections(n)
  \/ StartNext

\* CollectAllStatus, the termination triggers and terminate.
CoordinatorNext ==
  \/ CollectAllStatus_Setup
  \/ Signal
  \/ CollectAllStatus_Select
  \/ CollectAllStatus_Receive
  \/ PeekWake
  \/ Tick
  \/ \E t \in Threads : terminate_Cleanup(t)
  \/ \E t \in Threads : terminate_Status(t)
  \/ \E t \in Threads : terminate_MarshalFirst(t)
  \/ \E t \in Threads : terminate_MarshalRest(t)
  \/ \E t \in Threads : terminate_Output(t)
  \/ \E t \in Threads : terminate_Exit(t)

\* A peek-mode run: the driver sets the duration and the peek mode, in either
\* order, and calls Start; then CollectAllStatus and the shutdown.  (Without
\* peek mode Start stops at its prompt and is not followed.)
PeekNext ==
  \/ \E d \in 0 .. MaxDuration : SetSimulationDuration(d)
  \/ \E b \in BOOLEAN : SetPeekingMode(b)
  \/ Start_Enter
  \/ CoordinatorNext

\* The shutdown while the workers record observations.
ShutdownNext ==
  \/ CoordinatorNext
  \/ \E w \in Workers, c \in Cats : record(w, c)

\* A whole run of duration 0 without connections, from the call of NewRunner
\* to the exit: construction, configuration of the modes, Start,
\* CollectAllStatus (whose timer has expired when the select is reached) and
\* the shutdown.
RunNext ==
  \/ NewRunnerNext
  \/ \E c \in {"", "other"} : SetCollection(c)
  \/ \E b \in BOOLEAN : SetAutoMode(b)
  \/ \E b \in BOOLEAN : SetPeekingMode(b)
  \/ \E b \in BOOLEAN : SetDropFirstMode(b)
  \/ \E b \in BOOLEAN : SetSimOnlyMode(b)
  \/ StartNext
  \/ CollectAllStatus_Setup
  \/ CollectAllStatus_Select
  \/ PeekWake
  \/ \E t \in Threads : terminate_Cleanup(t)
  \/ \E t \in Threads : terminate_Status(t)
  \/ \E t \in Threads : terminate_MarshalFirst(t)
  \/ \E t \in Threads : terminate_MarshalRest(t)
  \/ \E t \in Threads : terminate_Output(t)
  \/ \E t \in Threads : terminate_Exit(t)

\* The split loop of splitChunks alone.
SplitNext ==
  \/ splitChunks_Split
  \/ splitChunks_Return

Next == ConfigNext \/ StartNext \/ WorkerNext \/ ShutdownNext

\* The whole program.
Spec == Init /\ [][Next]_vars

\* A load run up to the return of Start, with its workers.
LoadSpec == Init /\ [][LoadNext]_vars

\* The program when Start has returned and the driver is about to call
\* CollectAllStatus.  In peek mode Start returned at once and the peek
\* goroutine, started for the longest sleep, has peekSleep minutes of it
\* left; otherwise every spawned worker is in its
\* simulation step (index creation, when it ran, stopped at its first call).
ShutdownInit ==
  /\ auto = TRUE /\ drop = FALSE
  /\ peek \in BOOLEAN /\ peekSet = peek
  /\ simOnly \in (IF peek THEN {FALSE} ELSE BOOLEAN)
  /\ duration \in 0 .. MaxDuration
  /\ conns \in (IF peek THEN {0} ELSE 0 .. MaxConns)
  /\ dbName \in (IF peek THEN DbNames ELSE {LoadTestDB(d) : d \in DbNames})
  /\ collectionName \in (IF peek THEN {ExamplesCollection} ELSE CollNames)
  /\ clusterType \in {Sharded, Replica}
  /\ uriList \in 1 .. MaxUris
  /\ (clusterType # Sharded => uriList = 1)
  /\ metrics = [c \in Cats |-> 0]
  /\ ctor = Returned(IF dbName = KeyholeDB THEN "" ELSE dbName, clusterType)
  /\ mainPc = "collect" /\ exited = "running" /\ text = ""
  /\ simTime = (IF peek THEN 0 ELSE SimTime(duration, simOnly))
  /\ err = "nil" /\ tdocIndexes = 0
  /\ spawned = conns
  /\ docI = 0 /\ shards = 0 /\ splitI = 0 /\ chunks = <<>> /\ chunkI = 0 /\ fillI = 0
  /\ dropLog = <<>> /\ splitLog = <<>> /\ moveLog = <<>> /\ planErr = "none"
  /\ indexCalls = (IF ~peek /\ simOnly = FALSE THEN 1 ELSE 0)
  /\ wpc = [w \in Workers |-> IF w < conns THEN "simulating" ELSE "none"]
  /\ ownErr = [w \in Workers |-> FALSE]
  /\ simArg = [w \in Workers |-> IF w < conns THEN simTime ELSE 0]
  /\ popCount = [w \in Workers |->
                   IF w < conns /\ simOnly = FALSE /\ duration > 0 THEN 1 ELSE 0]
  /\ tpc = [t \in Threads |-> IF t = "peek" /\ peek THEN "sleeping" ELSE "idle"]
  /\ peekSleep \in (IF peek THEN 0 .. MaxDuration ELSE {-1})
  /\ peekArg = (IF peek THEN MaxDuration ELSE 0)
  /\ tIdx = [t \in Threads |-> 0]
  /\ tLog = [t \in Threads |-> <<>>]
  /\ termErrors = {}
  /\ snap = [t \in Threads |-> [c \in Cats |-> 0]]
  /\ outputs = <<>>
  /\ collectors = 0 /\ signals = 0 /\ quit = 0 /\ timer = -1

\* Start up to its return, the workers it starts not yet scheduled.
ConfirmSpec == Init /\ [][ConfirmNext]_vars

PeekSpec == Init /\ [][PeekNext]_vars

\* A whole run from the call of NewRunner on.
RunSpec == CtorInit /\ [][RunNext]_vars

ShutdownSpec == ShutdownInit /\ [][ShutdownNext]_vars

\* The scheduler runs every goroutine that can take a step, and time passes.
\* Nothing obliges the operator to send a signal.
ShutdownFairness ==
  /\ WF_vars(CollectAllStatus_Setup)
  /\ WF_vars(CollectAllStatus_Select)
  /\ WF_vars(CollectAllStatus_Receive)
  /\ WF_vars(PeekWake)
  /\ WF_vars(Tick)
  /\ \A t \in Threads :
       /\ WF_vars(terminate_Cleanup(t))
       /\ WF_vars(terminate_Status(t))
       /\ WF_vars(terminate_MarshalFirst(t))
       /\ WF_vars(terminate_MarshalRest(t))
       /\ WF_vars(terminate_Output(t))
       /\ WF_vars(terminate_Exit(t))

\* The shutdown of a run without workers (peek mode, or no connections) on
\* the keyhole database and the examples collection of a sharded cluster,
\* where a Cleanup outside peek mode issues both drops and the status loop
\* has one URI per shard; in peek mode the duration was set before the mode,
\* so that the peek goroutine's sleep and the timer end together.  Under fair
\* scheduling.
CoordinatorInit ==
  /\ ShutdownInit
  /\ conns = 0 /\ simOnly = FALSE
  /\ dbName = KeyholeDB /\ collectionName = ExamplesCollection
  /\ clusterType = Sharded
  /\ (peek => peekSleep = duration)

ShutdownFairSpec == CoordinatorInit /\ [][CoordinatorNext]_vars /\ ShutdownFairness

\* splitChunks at its split loop on a sharded cluster of m + 1 shards (all
\* decoded, one of them the primary), in a run with the default settings and
\* an empty template.
SplitInit ==
  /\ auto = TRUE /\ peek = FALSE /\ peekSet = FALSE /\ simOnly = FALSE
  /\ drop = FALSE /\ duration = 0 /\ conns = 0
  /\ dbName = KeyholeDB /\ collectionName = ExamplesCollection
  /\ clusterType = Sharded
  /\ uriList \in 1 .. (MaxSplitShards + 1)
  /\ shards = uriList - 1
  /\ metrics = [c \in Cats |-> 0]
  /\ ctor = Returned("", clusterType) /\ peekArg = 0 /\ text = ""
  /\ mainPc = "sc_split" /\ exited = "running"
  /\ simTime = SimTime(duration, simOnly) /\ err = "nil" /\ tdocIndexes = 0
  /\ spawned = 0
  /\ docI = 0 /\ splitI = 0 /\ chunks = <<>> /\ chunkI = 0 /\ fillI = 0
  /\ dropLog = <<>> /\ indexCalls = 2 /\ splitLog = <<>> /\ moveLog = <<>>
  /\ planErr = "none"
  /\ wpc = [w \in Workers |-> "none"]
  /\ ownErr = [w \in Workers |-> FALSE]
  /\ simArg = [w \in Workers |-> 0]
  /\ popCount = [w \in Workers |-> 0]
  /\ tpc = [t \in Threads |-> "idle"]
  /\ tIdx = [t \in Threads |-> 0]
  /\ tLog = [t \in Threads |-> <<>>]
  /\ termErrors = {}
  /\ snap = [t \in Threads |-> [c \in Cats |-> 0]]
  /\ outputs = <<>>
  /\ collectors = 0 /\ signals = 0 /\ quit = 0 /\ timer = -1 /\ peekSleep = -1

SplitSpec == SplitInit /\ [][SplitNext]_vars

(* ------------------------------- claims -------------------------------- *)
InTerminate(t) == tpc[t] \in {"cleanup", "status", "marshal", "output", "exit", "exited"}

\* C1: the shutdown sequence is entered at most once per process lifetime:
\* whatever triggers fire, at most one invocation of terminate ever runs, so
\* the snapshot is written at most once.
C1_TerminateEnteredOnce ==
  /\ Cardinality({t \in Threads : InTerminate(t)}) <= 1
  /\ Len(outputs) <= 1

\* C2: worker failures are isolated: a worker returns before its simulation
\* step only if a call it made itself returned an error, and a worker whose
\* own population step failed never goes on to simulate.
C2_WorkerFailuresIsolated ==
  \A w \in Workers :
    /\ wpc[w] = "aborted" => ownErr[w]
    /\ wpc[w] = "simulating" => ~ownErr[w]

TriggerPending == mainPc \in {"select", "recv"} /\ (timer = 0 \/ quit > 0)

\* C3: while CollectAllStatus is waiting, an expired timer or a delivered
\* signal eventually drives the shutdown and the process exits.
C3_TriggerDrivesShutdown == TriggerPending ~> (exited = "exit0")

\* C4: for every count m of non-primary shards the split loop never indexes
\* outside the 26 keys, the k-th split it issues is at index k * divider with
\* divider = 1 + 26 \div (m + 1), the indices are strictly increasing and
\* within 1..25, a completed loop has issued exactly m splits, and for m = 3
\* the keys are H, O, V.
C4_SplitBoundaries ==
  (mainPc \in {"sc_split", "sc_ret"}) =>
    /\ exited # "panic"
    /\ \A k \in 1 .. Len(splitLog) :
         /\ splitLog[k] = k * (1 + (26 \div (shards + 1)))
         /\ splitLog[k] >= 1 /\ splitLog[k] <= NumShardKeys - 1
         /\ (k > 1 => splitLog[k] > splitLog[k - 1])
    /\ (mainPc = "sc_split" /\ splitI = shards => Len(splitLog) = shards)
    /\ (shards = 3 /\ Len(splitLog) = 3 =>
          [k \in 1 .. 3 |-> ShardKeys[splitLog[k] + 1]] = <<"H", "O", "V">>)

\* C5: while an invocation of terminate is serializing the metrics mapping no
\* write to the mapping happens.
C5_SnapshotReadIsExclusive ==
  [][(\E t \in Threads : tpc[t] = "marshal") => metrics' = metrics]_vars

StatusCount(log) == Cardinality({k \in 1 .. Len(log) : log[k] = "status"})

Wrote(t) == \E k \in 1 .. Len(outputs) : outputs[k] = t

\* What an invocation that reaches the snapshot and the exit has done.
C6_Completes ==
  /\ exited \in {"running", "exit0"}
  /\ \A t \in Threads :
       /\ tpc[t] \in {"marshal", "output", "exit", "exited"} =>
            StatusCount(tLog[t]) = uriList
       /\ tpc[t] \in {"exit", "exited"} => Wrote(t)
       /\ tpc[t] = "exited" => exited = "exit0"

\* C6: once terminate is entered the process reaches exit with success
\* status; the invocation that exits has attempted the status collection for
\* every URI of the list and written the snapshot, whatever failed on the way
\* (a drop, a connect, a status collection, the marshalling).
C6_ShutdownCompletes ==
  /\ []C6_Completes
  /\ \A t \in Threads : (tpc[t] = "cleanup") ~> (exited = "exit0")

\* C6 witness: the process has exited after a failed drop, a failed connect,
\* a failed status collection and a failed marshal.
C6_Witness ==
  /\ exited = "exit0"
  /\ tpc["main"] = "exited"
  /\ uriList = 2
  /\ termErrors = {"connect", "status", "marshal"}
  /\ \E k \in 1 .. Len(dropLog) : dropLog[k].res = "err"

ExpectedLog ==
  <<"cleanup">> \o [k \in 1 .. uriList |-> "status"] \o <<"marshal", "output", "exit">>

IsPrefix(a, b) == Len(a) <= Len(b) /\ \A k \in 1 .. Len(a) : a[k] = b[k]

\* C7: within one invocation of terminate the steps happen in the order
\* cleanup, status collection for each URI, marshal, snapshot write, exit; the
\* process exits only from an invocation that has done them all, and nothing
\* changes after the exit.
C7_ShutdownOrder ==
  /\ [](/\ \A t \in Threads : IsPrefix(tLog[t], ExpectedLog)
        /\ (exited = "exit0" => \E t \in Threads : tLog[t] = ExpectedLog))
  /\ [][exited # "running" => UNCHANGED vars]_vars

\* C7 witness: an invocation has run to the exit over two URIs, its cleanup
\* having dropped the collection and the database and slept.
C7_Witness ==
  /\ exited = "exit0"
  /\ uriList = 2
  /\ tLog["main"] = <<"cleanup", "status", "status", "marshal", "output", "exit">>
  /\ Len(dropLog) = 3

WorkerBegan(w) == wpc[w] # "none"

\* C8: after a failure of enableSharding, shardCollection, a split or a move
\* no worker is spawned.
C8_PlanningFailureAborts ==
  planErr \in {"enableSharding", "shardCollection", "split", "move"} =>
    \A w \in Workers : ~WorkerBegan(w)

\* C9: when a worker has begun, Start is past createIndexes (and splitChunks)
\* and, unless simulate-only, index creation has been issued; a worker in or
\* past its simulation step has completed its population step whenever it
\* had one to run.
C9_SetupPrecedesLoad ==
  \A w \in Workers :
    /\ WorkerBegan(w) =>
         /\ mainPc \in {"spawn", "collect"}
         /\ (simOnly = FALSE => indexCalls >= 1)
    /\ (wpc[w] \in {"simulating", "chksim", "done"} /\ simOnly = FALSE /\ duration > 0) =>
         popCount[w] = 1

\* C9 witness: a worker simulates after its population step on a sharded
\* cluster whose partition planning ran to its end.
C9_Witness ==
  \E w \in Workers :
    /\ wpc[w] = "simulating" /\ popCount[w] = 1
    /\ clusterType = Sharded /\ planErr = "nil" /\ indexCalls = 2

\* C10: for a duration D >= 1, a worker that is not simulate-only runs one
\* population step and is given D - 1 minutes to simulate; a simulate-only
\* worker runs no population step and is given D minutes.
C10_PhaseDurations ==
  duration >= 1 =>
    \A w \in Workers :
      /\ wpc[w] \in {"simulating", "chksim", "done"} =>
           IF simOnly = FALSE
             THEN popCount[w] = 1 /\ simArg[w] = duration - 1
             ELSE popCount[w] = 0 /\ simArg[w] = duration
      /\ wpc[w] \in {"chkpop", "aborted"} => (simOnly = FALSE /\ popCount[w] = 1)

\* C10 witness: a worker has finished a run with a population step and a
\* simulation of D - 1 minutes.
C10_Witness ==
  \E w \in Workers :
    /\ wpc[w] = "done" /\ simOnly = FALSE /\ duration >= 1
    /\ popCount[w] = 1 /\ simArg[w] = duration - 1

\* C11: a confirmed, non-peek Start with conns = n starts exactly n workers,
\* the ones of index 0 .. n-1 in that order, and a simulate-only run issues no
\* index creation and no partition planning, before or after the spawn.
C11_WorkersPerConnection ==
  /\ \A w \in Workers : WorkerBegan(w) <=> w < spawned
  /\ spawned <= conns
  /\ (mainPc = "collect" => spawned = conns)
  /\ (simOnly => indexCalls = 0 /\ planErr = "none" /\ splitLog = <<>> /\ moveLog = <<>>
                 /\ mainPc \in {"config", "prompt", "prepare", "spawn", "collect"})

\* C11 witness: a confirmed simulate-only Start with two connections has
\* returned with both workers started and no index created.
C11_Witness ==
  /\ mainPc = "collect" /\ text \in {"y", "Y"}
  /\ simOnly /\ conns = 2 /\ spawned = 2
  /\ WorkerBegan(0) /\ WorkerBegan(1)
  /\ indexCalls = 0

\* Start (not in peek mode, where it returns at once) is past its drop-first
\* Cleanup and no shutdown has begun: dropLog is what that Cleanup did.
AfterStartCleanup ==
  /\ drop /\ ~peek
  /\ mainPc \in {"ci_search", "ci_email", "ci_docs", "sc_primary", "sc_enable",
                 "sc_shardcoll", "sc_shards", "sc_split", "sc_walk", "sc_ret",
                 "spawn", "collect", "select", "recv"}

Kinds(log) == [k \in 1 .. Len(log) |-> log[k].kind]

\* The examples collection (when it is the configured one), then the
\* database, both in the keyhole database, then a sleep of a second or more.
DropsInOrder(log) ==
  /\ Kinds(log) = (IF collectionName = ExamplesCollection
                     THEN <<"collection">> ELSE <<>>) \o <<"database", "sleep">>
  /\ \A k \in 1 .. Len(log) :
       /\ log[k].kind = "collection" =>
            log[k].db = KeyholeDB /\ log[k].coll = ExamplesCollection
       /\ log[k].kind = "database" => log[k].db = KeyholeDB
       /\ log[k].kind = "sleep" => log[k].secs >= 1

\* C12 as stated: with drop-first configured and the keyhole database as the
\* target, the Cleanup run by Start drops the examples collection (if it is
\* the configured collection), then the database, whatever the result of the
\* first drop, then sleeps at least a second.
C12_DropFirstOrder ==
  (AfterStartCleanup /\ dbName = KeyholeDB) => DropsInOrder(dropLog)

\* C12 amended: the same when the run is not simulate-only.
C12_DropFirstOrderUnlessSimOnly ==
  (AfterStartCleanup /\ dbName = KeyholeDB /\ ~simOnly) => DropsInOrder(dropLog)

\* C12 witness: the drop-first Cleanup has dropped the database after the
\* drop of the examples collection failed, and slept.
C12_Witness ==
  /\ AfterStartCleanup /\ dbName = KeyholeDB /\ ~simOnly
  /\ Len(dropLog) = 3
  /\ dropLog[1].kind = "collection" /\ dropLog[1].res = "err"
  /\ dropLog[2].kind = "database"
  /\ dropLog[3].kind = "sleep"

NothingDone ==
  /\ dropLog = <<>> /\ indexCalls = 0 /\ planErr = "none"
  /\ spawned = 0 /\ \A w \in Workers : ~WorkerBegan(w)

\* C13: unless auto-confirm is configured nothing is dropped, no index is
\* created and no worker is started before the prompt is answered; Start goes
\* on after y or Y, and after any other answer the process has exited with
\* success status, still with nothing dropped, created or started.
C13_PromptGuardsLoad ==
  /\ (mainPc \in {"config", "prompt"} => NothingDone)
  /\ (~auto /\ ~NothingDone => text \in {"y", "Y"})
  /\ (mainPc = "prompt" /\ Running => text = "")
  /\ (mainPc = "prompt" /\ ~Running =>
        text \notin {"y", "Y"} /\ exited = "exit0" /\ NothingDone)
  /\ (text \in {"y", "Y"} => mainPc # "prompt")
  /\ (text \notin {"", "y", "Y"} => mainPc = "prompt" /\ exited = "exit0")

\* C13 witness: with drop-first and two connections configured and no
\* auto-confirm, the answer "yes" has ended the process at the prompt.
C13_Witness ==
  /\ ~auto /\ drop /\ conns = 2 /\ dbName = KeyholeDB
  /\ mainPc = "prompt" /\ text = "yes" /\ exited = "exit0"

\* C14: in peek mode Start returns without prompting, dropping anything,
\* creating an index, planning partitions or starting a worker, and no
\* Cleanup, the one of a shutdown included, issues a drop.
C14_PeekChangesNothing ==
  peek =>
    /\ NothingDone
    /\ splitLog = <<>> /\ moveLog = <<>>
    /\ text = ""
    /\ mainPc \in {"config", "collect", "select", "recv", "terminate"}

\* C14 witness: a peek-mode process with drop-first configured on the keyhole
\* database has exited after the Cleanup of a shutdown started by the peek
\* goroutine and of one started by CollectAllStatus.
C14_Witness ==
  /\ peek /\ drop /\ ~simOnly
  /\ dbName = KeyholeDB /\ collectionName = ExamplesCollection
  /\ exited = "exit0"
  /\ tLog["peek"] # <<>> /\ tLog["main"] # <<>>

\* NewRunner has read the cluster type.
Probed ==
  /\ mainPc \notin {"nr_new", "nr_client", "nr_cluster"}
  /\ ctor.failed # "connect"

\* C15: when the probed cluster type is empty NewRunner returns nil and an
\* error, having attempted no shard enumeration and produced no URI list; a
\* failure of the shard enumeration or of the derivation of the shard URIs is
\* the error NewRunner returns; and the runner is configured and started only
\* after a return without error on a known cluster type.
C15_TopologyFailuresSurface ==
  /\ (Probed /\ clusterType = "") =>
        /\ ctor.ret = "nil" /\ ctor.retErr \notin {"none", "nil"}
        /\ ~ctor.listed /\ uriList = 0
        /\ mainPc = "failed"
  /\ (ctor.failed \in {"GetShards", "GetAllShardURIs"}) =>
        /\ ctor.retErr = ctor.failed
        /\ clusterType = Sharded /\ ctor.listed
        /\ mainPc = "failed"
  /\ (ctor.listed => clusterType = Sharded)
  /\ (mainPc \notin {"nr_new", "nr_client", "nr_cluster", "nr_shards", "nr_uris",
                      "failed"}) =>
        /\ ctor.ret = "runner" /\ ctor.retErr = "nil" /\ ctor.failed = "none"
        /\ clusterType # "" /\ uriList >= 1

\* C15 witness: NewRunner has returned nil and an error for an empty cluster
\* type.
C15_Witness ==
  /\ Probed /\ clusterType = ""
  /\ ctor.ret = "nil" /\ ctor.retErr = "invalid cluster type"
  /\ mainPc = "failed"

\* C16: the chunk walk stops once the fill pointer has reached the number m
\* of kept shards, however it got there: it never goes on to a further chunk
\* with the pointer at m, never indexes past the shard list, and moves at
\* most one chunk to each shard.
C16_WalkStopsAtFill ==
  (mainPc = "sc_walk") =>
    /\ exited # "panic"
    /\ (fillI >= shards => chunkI > Len(chunks))
    /\ \A j, k \in 1 .. Len(moveLog) : j # k => moveLog[j] # moveLog[k]

\* C17: in peek mode, whatever the order of SetSimulationDuration(d) and
\* SetPeekingMode(true), the peek goroutine does not start the shutdown before
\* d minutes have passed since peek mode was enabled.  The goroutine calls
\* terminate when the x minutes of its sleep have passed, so this is: once
\* Start has been called, a peek goroutine that has called terminate slept
\* x >= duration minutes.
C17_PeekTimerIsDuration ==
  (peek /\ mainPc # "config" /\ tpc["peek"] \notin {"idle", "sleeping"}) =>
    peekArg >= duration

IsDrop(r) == r.kind \in {"collection", "database"}

\* C18: whatever the configuration and the call site (drop-first in Start,
\* or a shutdown), the only database Cleanup drops is the keyhole database
\* and the only collection the examples collection in it; and it drops
\* nothing when the target is another database, in a simulate-only run or in
\* peek mode.
C18_CleanupDropsOwnData ==
  /\ \A k \in 1 .. Len(dropLog) :
       /\ dropLog[k].kind = "database" => dropLog[k].db = KeyholeDB
       /\ dropLog[k].kind = "collection" =>
            dropLog[k].db = KeyholeDB /\ dropLog[k].coll = ExamplesCollection
  /\ (dbName # KeyholeDB \/ simOnly \/ peek) =>
       \A k \in 1 .. Len(dropLog) : ~IsDrop(dropLog[k])

\* C18 witness: the Cleanup of a shutdown, in a run with drop-first whose
\* connection string named the admin database, has dropped the examples
\* collection and the keyhole database.
C18_Witness ==
  /\ drop /\ ctor.database = "admin"
  /\ tLog["main"] # <<>>
  /\ Len(dropLog) = 3
  /\ dropLog[1].kind = "collection" /\ dropLog[2].kind = "database"
  /\ dropLog[2].db = KeyholeDB

SystemDBs == {"", "admin", "config", "local"}

\* A confirmed, non-peek Start is past its database-name check.
PastNameCheck ==
  /\ ~peek
  /\ mainPc \notin {"nr_new", "nr_client", "nr_cluster", "nr_shards", "nr_uris",
                     "failed", "config", "prompt", "prepare"}

\* C19: once a confirmed, non-peek Start is past its database-name check the
\* target database is never the empty name, admin, config or local: it is
\* the keyhole database when the connection string named one of these and
\* the database the connection string named otherwise; and it is the
\* database every drop of a database is issued on.
C19_NoSystemDatabase ==
  PastNameCheck =>
    /\ dbName \notin SystemDBs
    /\ dbName = (IF ctor.database \in SystemDBs THEN KeyholeDB ELSE ctor.database)
    /\ \A k \in 1 .. Len(dropLog) : dropLog[k].kind = "database" => dropLog[k].db = dbName

\* C19 witness: a run whose connection string named the local database has
\* created its indexes and planned its partitions on the keyhole database.
C19_Witness ==
  /\ PastNameCheck /\ ctor.database = "local" /\ dbName = KeyholeDB
  /\ indexCalls = 2 /\ planErr = "nil"

\* C20: for every duration D >= 0 and either simulate-only setting, the
\* duration a worker's simulation step is called with is not negative, and a
\* worker runs a population step exactly when the run is not simulate-only
\* and D > 0.
C20_SimTimeNonNegative ==
  \A w \in Workers :
    /\ wpc[w] \in {"simulating", "chksim", "done"} => simArg[w] >= 0
    /\ wpc[w] \notin {"none", "start"} =>
         popCount[w] = (IF simOnly = FALSE /\ duration > 0 THEN 1 ELSE 0)

====
